---- MODULE Spec2Model ----
(***************************************************************************)
(* Model of py_address_screen: the client ChanalysisAPIClient with its     *)
(* rate-limited, retried request gate (_make_request), the memoized        *)
(* taxonomy (fetch_categories), screen_address, the concurrent batch       *)
(* screen_addresses and the formatting of records; the reading and writing *)
(* of CSVProcessor; and one run of the command line (async_main).  Tasks   *)
(* are asyncio coroutines: the code between two suspension points (a       *)
(* blocked semaphore acquire, the HTTP exchange, the backoff sleep) is one *)
(* atomic step.                                                            *)
(***************************************************************************)
EXTENDS Integers, Sequences, FiniteSets, TLC

(* ------------------------------ bounds -------------------------------- *)
MaxAddrs == 2
MaxCalls == 3
MaxRate == 2
MaxConc == 2
MaxRetriesCfg == 4
NumFetchers == 2
MaxExposures == 2
MaxRaw == 4

(* ------------------------- program constants -------------------------- *)
StopAfterAttempt == 3
DefaultMaxRetries == 3

VARIABLES
  config,      \* Config: rate_limit, max_concurrent_requests, max_retries,
               \* include_indirect_exposure
  session,     \* self.session is not None
  rate_value,  \* free slots of self._rate_limit_semaphore
  categories,  \* self._categories: None or <<list>>
  batch,       \* the running screen_addresses call: pc, addresses, outcome
  drv,         \* the fetch_categories request made by screen_addresses
  sem_value,   \* free slots of the batch's local semaphore
  task,        \* task[i]: the coroutine screen_with_semaphore(addresses[i])
  results,     \* the result slots of asyncio.gather
  nCalls,      \* number of calls made on the client so far
  direct,      \* a caller using screen_address directly
  fetcher,     \* callers using fetch_categories directly
  firstCats,   \* history: the list returned by the first successful fetch
  run,         \* one run of the command line: async_main
  fmt          \* a call of _format_screening_result / _format_error_result

vars == <<config, session, rate_value, categories, batch, drv, sem_value,
          task, results, nCalls, direct, fetcher, firstCats, run, fmt>>

(* ------------------------------ values -------------------------------- *)
None == <<>>
Some(x) == <<x>>

\* The addresses a caller may pass, in the order it passes them.
AddressPool == <<"b", "a", "c", "a", "d">>
Addresses == {AddressPool[k] : k \in 1..Len(AddressPool)}

\* aiohttp.ClientError and its subclasses (ClientResponseError carries the
\* HTTP status of raise_for_status).
\* ContentTypeError is what response.json() raises for a body that is not
\* served as JSON; it is a ClientResponseError too.
ClientErrors == {"ClientConnectionError", "Http500", "Http429", "Http404",
                 "ContentTypeError"}
\* Exceptions of one HTTP exchange that are not aiohttp.ClientError: the
\* json.JSONDecodeError of response.json() and the asyncio.TimeoutError of
\* ClientTimeout(total=30).
OtherErrors == {"JSONDecodeError", "TimeoutError"}
HttpErrors == ClientErrors \cup OtherErrors

\* str(e), or "<status> <message>" for a ClientResponseError.
ErrorMessage(e) ==
  CASE e = "ClientConnectionError" -> "Cannot connect to host"
    [] e = "Http500" -> "500 Internal Server Error"
    [] e = "Http429" -> "429 Too Many Requests"
    [] e = "Http404" -> "404 Not Found"
    [] e = "ContentTypeError" ->
         "200 Attempt to decode JSON with unexpected mimetype: text/html"
    [] e = "JSONDecodeError" -> "Expecting value: line 1 column 1 (char 0)"
    [] e = "TimeoutError" -> ""
    [] e = "RuntimeError" -> "Client session not initialized"
    [] e = "CategoriesValueError" ->
         "Categories not initialized. Call fetch_categories() first."
    [] OTHER -> e

\* Bodies the categories endpoint may answer with: dict says whether the body
\* is a dict with a "categories" key, names lists each entry's categoryName
\* ("" for a missing or empty one).
CatResponses ==
  { [dict |-> TRUE,  names |-> <<"sanctions", "mixing">>],
    [dict |-> TRUE,  names |-> <<"mixing">>],
    [dict |-> TRUE,  names |-> <<"">>],
    [dict |-> FALSE, names |-> <<>>] }

\* The order of str comparison on the names used here.
CatOrder == <<"mixing", "sanctions">>
Rank(n) == CHOOSE k \in 1..Len(CatOrder) : CatOrder[k] = n

RECURSIVE Insert(_, _)
Insert(x, s) ==
  IF s = <<>> THEN <<x>>
  ELSE IF Rank(x) < Rank(Head(s)) THEN <<x>> \o s
       ELSE <<Head(s)>> \o Insert(x, Tail(s))

RECURSIVE sorted(_)
sorted(s) == IF s = <<>> THEN <<>> ELSE Insert(Head(s), sorted(Tail(s)))

RECURSIVE NonEmptyNames(_)
NonEmptyNames(s) ==
  IF s = <<>> THEN <<>>
  ELSE IF Head(s) = "" THEN NonEmptyNames(Tail(s))
       ELSE <<Head(s)>> \o NonEmptyNames(Tail(s))

(* --------------------------- _make_request ---------------------------- *)
\* One call of _make_request as seen by its caller: pc is where the
\* coroutine stands, attempt is tenacity's attempt number, sent counts the
\* HTTP requests issued, err is the exception of the attempt that has just
\* ended, exc the exception that left _make_request.
IdleCall == [pc |-> "idle", attempt |-> 0, sent |-> 0, err |-> "none",
             exc |-> "none"]

\* retry=retry_if_exception_type(aiohttp.ClientError)
Retryable(e) == e \in ClientErrors

\* stop=stop_after_attempt(3)
StopAfterTwo(c) == c.attempt >= 2
Stop(c) == c.attempt >= StopAfterAttempt

\* reraise=True: the exception leaving _make_request is the last attempt's.
RaisedRetryError(c, e) == "RetryError"
Raised(c, e) == e

\* Start of an attempt: the session check, then the throughput semaphore.
BeginAttemptUngated(c, rv) ==
  LET n == c.attempt + 1 IN
  IF ~session
    THEN [call |-> [c EXCEPT !.pc = "raised", !.attempt = n,
                             !.err = "RuntimeError",
                             !.exc = Raised(c, "RuntimeError")],
          rate |-> rv]
    ELSE [call |-> [c EXCEPT !.pc = "inflight", !.attempt = n,
                             !.sent = c.sent + 1, !.err = "none"],
          rate |-> rv - 1]
BeginAttempt(c, rv) ==
  LET n == c.attempt + 1 IN
  IF ~session
    THEN [call |-> [c EXCEPT !.pc = "raised", !.attempt = n,
                             !.err = "RuntimeError",
                             !.exc = Raised(c, "RuntimeError")],
          rate |-> rv]
    ELSE IF rv > 0
      THEN [call |-> [c EXCEPT !.pc = "inflight", !.attempt = n,
                               !.sent = c.sent + 1, !.err = "none"],
            rate |-> rv - 1]
      ELSE [call |-> [c EXCEPT !.pc = "wait_rate", !.attempt = n,
                               !.err = "none"],
            rate |-> rv]

\* A task blocked on the throughput semaphore gets a slot.
AcquireRateNotCounted(c, rv) ==
  [call |-> [c EXCEPT !.pc = "inflight", !.sent = c.sent + 1],
   rate |-> rv]
AcquireRate(c, rv) ==
  [call |-> [c EXCEPT !.pc = "inflight", !.sent = c.sent + 1],
   rate |-> rv - 1]

\* End of the HTTP exchange of an attempt with outcome o ("ok" or an
\* exception): the async-with releases the slot on return and on raise; the
\* pacing sleep after the try block is never reached.  tenacity then returns
\* the value, sleeps for the backoff, or re-raises.
EndAttempt(c, o) ==
  IF o = "ok" THEN [c EXCEPT !.pc = "returned"]
  ELSE IF Retryable(o) /\ ~Stop(c)
         THEN [c EXCEPT !.pc = "backoff", !.err = o]
         ELSE [c EXCEPT !.pc = "raised", !.err = o, !.exc = Raised(c, o)]

Finished(c) == c.pc \in {"returned", "raised"}

(* --------------------------- result records --------------------------- *)
format_error_result(address, error_message) ==
  [address |-> address, status |-> "error", error |-> error_message]

\* _format_screening_result raises ValueError while the taxonomy is unset.
format_screening_result(address) ==
  IF categories = None
    THEN [address |-> address, status |-> "raised",
          error |-> ErrorMessage("CategoriesValueError")]
    ELSE [address |-> address, status |-> "success", error |-> ""]

\* screen_address once its _make_request call c has finished: every
\* Exception becomes an error record.
ScreenAddressPropagates(address, c) ==
  IF c.pc = "returned"
    THEN format_screening_result(address)
    ELSE IF c.exc \in ClientErrors
           THEN format_error_result(address, ErrorMessage(c.exc))
           ELSE [address |-> address, status |-> "raised",
                 error |-> ErrorMessage(c.exc)]
screen_address(address, c) ==
  IF c.pc = "returned"
    THEN LET r == format_screening_result(address) IN
         IF r.status = "raised"
           THEN format_error_result(address, r.error)
           ELSE r
    ELSE format_error_result(address, ErrorMessage(c.exc))

Pending == [address |-> "", status |-> "pending", error |-> ""]

\* asyncio.gather keeps the result of the i-th awaitable in slot i.
GatherCompletionOrder(res, i, r) ==
  LET k == CHOOSE j \in 1..Len(res) :
             /\ res[j] = Pending
             /\ \A m \in 1..(j - 1) : res[m] # Pending
  IN [res EXCEPT ![k] = r]
GatherStore(res, i, r) == [res EXCEPT ![i] = r]

\* The loop over the gathered results: an exception becomes an error record
\* for the address at the same index.
FormatResults(res, addresses) ==
  [i \in 1..Len(res) |->
     IF res[i].status = "raised"
       THEN format_error_result(addresses[i], res[i].error)
       ELSE res[i]]

(* -------------------------- fetch_categories -------------------------- *)
\* The request returned resp and the parse of it yields a non-empty list.
FetchOKAnyBody(c, resp) == c.pc = "returned"
FetchOK(c, resp) ==
  /\ c.pc = "returned"
  /\ resp.dict
  /\ NonEmptyNames(resp.names) # <<>>

FetchedCategories(resp) == sorted(NonEmptyNames(resp.names))

\* if self._categories is not None: return self._categories
CacheNeverHit == FALSE
CacheHit == categories # None

(* ------------------------------ row data ------------------------------ *)
\* Python values inside row data are written as text: None as "None", the
\* JSON numbers 0 and 5 as "0" and "5", a str as itself.
PyNone == "None"

Put(d, k, v) == [x \in DOMAIN d \cup {k} |-> IF x = k THEN v ELSE d[x]]

\* An API payload: risk and the exposure list.  An exposure entry has a
\* category, an exposureType ("" when the entry carries none) and a value
\* (PyNone when the entry carries none).
\* The inner loop of the branch with indirect exposure: no break, so the
\* value of the last entry of that category and type stays.
ExposureAnyType(exposures, cat, type) ==
  LET idx == {k \in 1..Len(exposures) : exposures[k].category = cat} IN
  IF idx = {} THEN PyNone
  ELSE exposures[CHOOSE k \in idx : \A m \in idx : m <= k].value
RECURSIVE ExposureOfType(_, _, _)
ExposureOfType(exposures, cat, type) ==
  IF exposures = <<>> THEN PyNone
  ELSE LET n == Len(exposures)
           e == exposures[n]
       IN IF e.category = cat /\ e.exposureType = type
            THEN e.value
            ELSE ExposureOfType(SubSeq(exposures, 1, n - 1), cat, type)

\* The inner loop of the branch without indirect exposure: the first entry
\* of the category whose exposureType is not "indirect", then break.
RECURSIVE LastNonIndirect(_, _)
LastNonIndirect(exposures, cat) ==
  IF exposures = <<>> THEN PyNone
  ELSE LET n == Len(exposures)
           e == exposures[n]
       IN IF e.category = cat /\ e.exposureType # "indirect"
            THEN e.value
            ELSE LastNonIndirect(SubSeq(exposures, 1, n - 1), cat)
RECURSIVE FirstNonIndirect(_, _)
FirstNonIndirect(exposures, cat) ==
  IF exposures = <<>> THEN PyNone
  ELSE LET e == Head(exposures) IN
       IF e.category = cat /\ e.exposureType # "indirect"
         THEN e.value
         ELSE FirstNonIndirect(Tail(exposures), cat)

\* for cat in categories: the assignments to row_data, in order.
RECURSIVE CategoryFields(_, _, _, _)
CategoryFields(row, cats, exposures, include_indirect) ==
  IF cats = <<>> THEN row
  ELSE LET cat == Head(cats)
           r == IF include_indirect
                  THEN Put(Put(row, cat \o "_direct",
                               ExposureOfType(exposures, cat, "direct")),
                           cat \o "_indirect",
                           ExposureOfType(exposures, cat, "indirect"))
                  ELSE Put(row, cat, FirstNonIndirect(exposures, cat))
       IN CategoryFields(r, Tail(cats), exposures, include_indirect)

\* The row_data of _format_screening_result (the cluster is absent).
screening_row_data(address, api_result, cats, include_indirect) ==
  CategoryFields([address |-> address, screenStatus |-> "complete",
                  risk |-> api_result.risk, riskReason |-> "",
                  category |-> "", name |-> ""],
                 cats, api_result.exposures, include_indirect)

\* The row_data of _format_error_result.
error_row_data(address, error_message) ==
  [address |-> address, screenStatus |-> error_message, risk |-> "",
   riskReason |-> "", category |-> "", name |-> ""]

\* The records of _format_screening_result and _format_error_result with
\* their row data.
FormatScreeningResult ==
  /\ fmt.pc = "input"
  /\ fmt' = IF categories = None
              THEN [fmt EXCEPT !.pc = "raised"]
              ELSE [fmt EXCEPT
                      !.pc = "success",
                      !.result =
                        [address |-> fmt.address, status |-> "success",
                         row_data |->
                           screening_row_data(
                             fmt.address, fmt.api_result, categories[1],
                             config.include_indirect_exposure),
                         raw_response |-> fmt.api_result]]
  /\ UNCHANGED <<run, config, session, rate_value, categories, batch, drv,
                 sem_value, task, results, nCalls, direct, fetcher,
                 firstCats>>

FormatErrorResult(error_message) ==
  /\ fmt.pc = "input"
  /\ fmt' = [fmt EXCEPT
               !.pc = "error",
               !.result =
                 [address |-> fmt.address, status |-> "error",
                  error |-> error_message,
                  row_data |-> error_row_data(fmt.address, error_message)]]
  /\ UNCHANGED <<run, config, session, rate_value, categories, batch, drv,
                 sem_value, task, results, nCalls, direct, fetcher,
                 firstCats>>

(* -------------------------------- Init -------------------------------- *)
NewTask == [pc |-> "new", attempt |-> 0, sent |-> 0, err |-> "none",
            exc |-> "none"]
IdleBatch == [pc |-> "idle", addresses |-> <<>>, returned |-> <<>>,
              after |-> FALSE, cats |-> None]
IdleDirect == [call |-> IdleCall, address |-> "", result |-> Pending]
\* out: "none" while the call runs, then "returned" or "raised"; hit: the
\* cache was set at the call; after: an earlier fetch had succeeded by then;
\* afterFail: the call before this one was a taxonomy resolution that raised.
IdleFetcher == [call |-> IdleCall, out |-> "none", hit |-> FALSE,
                after |-> FALSE, ret |-> None, afterFail |-> FALSE]

\* A run that has not started: key says whether CHAINALYSIS_API_KEY is set,
\* raw is the address column of the input file, file the rows written.
IdleRun == [pc |-> "idle", key |-> TRUE, raw |-> <<>>, addresses |-> <<>>,
            file |-> None, summary |-> None]
IdleFmt == [pc |-> "idle", address |-> "", api_result |-> None,
            result |-> None]

InitClient ==
  /\ session = FALSE
  /\ rate_value = config.rate_limit
  /\ categories = None
  /\ batch = IdleBatch
  /\ drv = IdleCall
  /\ sem_value = 0
  /\ task = <<>>
  /\ results = <<>>
  /\ nCalls = 0
  /\ direct = IdleDirect
  /\ fetcher = [f \in 1..NumFetchers |-> IdleFetcher]
  /\ firstCats = None

InitCommon ==
  /\ InitClient
  /\ run = IdleRun
  /\ fmt = IdleFmt

Init ==
  /\ config \in [rate_limit : 1..MaxRate,
                 max_concurrent_requests : 1..MaxConc,
                 max_retries : {DefaultMaxRetries},
                 include_indirect_exposure : {TRUE}]
  /\ InitCommon

(* ------------------------- history of calls --------------------------- *)
\* The records of calls that have returned are history kept for the
\* properties below.  A new call on the client starts from a history without
\* them; calls still in progress are left as they are.
DirectKept == IF Finished(direct.call) THEN IdleDirect ELSE direct
FetchersKept ==
  [f \in 1..NumFetchers |->
     IF fetcher[f].out # "none" THEN IdleFetcher ELSE fetcher[f]]
BatchOver == batch.pc \in {"returned", "raised"}
ForgetBatch ==
  IF BatchOver
    THEN /\ batch' = IdleBatch
         /\ drv' = IdleCall
         /\ sem_value' = 0
         /\ task' = <<>>
         /\ results' = <<>>
    ELSE UNCHANGED <<batch, drv, sem_value, task, results>>

\* A fetch_categories call, direct or of a batch, has raised and no call has
\* been made since.
FetchHadFailed ==
  \/ \E f \in 1..NumFetchers : fetcher[f].out = "raised"
  \/ batch.pc = "raised"

\* self._categories after fetch_categories has raised: every raise comes
\* before the assignment.
CacheEmptyListAfterFailure == Some(<<>>)
CacheAfterFailure == categories

(* ------------------------------ __aenter__ ---------------------------- *)
aenter ==
  /\ ~session
  /\ session' = TRUE
  /\ UNCHANGED <<run, fmt, config, rate_value, categories, batch, drv, sem_value, task,
                 results, nCalls, direct, fetcher, firstCats>>

(* -------------------------- screen_addresses -------------------------- *)
\* The part of screen_addresses after fetch_categories has returned cats:
\* the local semaphore, one task per address, gather.  gather of no
\* awaitable is done at once, and the call returns [].
BatchSemaphoreFromRateLimit == config.rate_limit
BatchSemaphore == config.max_concurrent_requests

Launch(b, cats) ==
  /\ sem_value' = BatchSemaphore
  /\ task' = [i \in 1..Len(b.addresses) |-> NewTask]
  /\ results' = [i \in 1..Len(b.addresses) |-> Pending]
  /\ batch' = [b EXCEPT !.pc = IF b.addresses = <<>> THEN "returned"
                                ELSE "gather",
                        !.cats = Some(cats)]

NoLaunch(b, pc) ==
  /\ sem_value' = 0
  /\ task' = <<>>
  /\ results' = <<>>
  /\ batch' = [b EXCEPT !.pc = pc]

\* except Exception in fetch_categories: raise ValueError(...), which leaves
\* screen_addresses.
FetchFailureIgnored(b) == Launch(b, <<>>)
FetchFailed(b) == NoLaunch(b, "raised")

\* A call of screen_addresses(addrs), up to its first suspension.
ScreenAddresses(addrs) ==
  /\ batch.pc \in {"idle", "returned", "raised"}
  /\ nCalls < MaxCalls
  /\ nCalls' = nCalls + 1
  /\ LET b == [pc |-> "fetching", addresses |-> addrs, returned |-> <<>>,
               after |-> firstCats # None, cats |-> None]
     IN IF CacheHit
          THEN /\ Launch(b, categories[1])
               /\ drv' = IdleCall
               /\ UNCHANGED rate_value
          ELSE LET r == BeginAttempt(IdleCall, rate_value) IN
               /\ drv' = r.call
               /\ rate_value' = r.rate
               /\ IF r.call.pc = "raised" THEN FetchFailed(b)
                                          ELSE NoLaunch(b, "fetching")
  /\ direct' = DirectKept
  /\ fetcher' = FetchersKept
  /\ UNCHANGED <<run, fmt, config, session, categories, firstCats>>

DriverAcquire ==
  /\ batch.pc = "fetching"
  /\ drv.pc = "wait_rate"
  /\ rate_value > 0
  /\ LET r == AcquireRate(drv, rate_value) IN
       drv' = r.call /\ rate_value' = r.rate
  /\ UNCHANGED <<run, fmt, config, session, categories, batch, sem_value, task,
                 results, nCalls, direct, fetcher, firstCats>>

\* The categories request of the batch ends with outcome o (and body resp
\* when o is "ok").
DriverRespond(o, resp) ==
  /\ batch.pc = "fetching"
  /\ drv.pc = "inflight"
  /\ rate_value' = rate_value + 1
  /\ LET c == EndAttempt(drv, o) IN
     /\ drv' = c
     /\ IF ~Finished(c)
          THEN UNCHANGED <<categories, firstCats, batch, sem_value, task,
                           results>>
          ELSE IF FetchOK(c, resp)
            THEN /\ categories' = Some(FetchedCategories(resp))
                 /\ firstCats' = IF firstCats = None
                                   THEN Some(FetchedCategories(resp))
                                   ELSE firstCats
                 /\ Launch(batch, FetchedCategories(resp))
            ELSE /\ FetchFailed(batch)
                 /\ categories' = CacheAfterFailure
                 /\ UNCHANGED firstCats
  /\ UNCHANGED <<run, fmt, config, session, nCalls, direct, fetcher>>

DriverBackoffEnd ==
  /\ batch.pc = "fetching"
  /\ drv.pc = "backoff"
  /\ LET r == BeginAttempt(drv, rate_value) IN
     /\ drv' = r.call
     /\ rate_value' = r.rate
     /\ IF r.call.pc = "raised"
          THEN FetchFailed(batch)
          ELSE UNCHANGED <<batch, sem_value, task, results>>
  /\ UNCHANGED <<run, fmt, config, session, categories, nCalls, direct, fetcher,
                 firstCats>>

(* ----------------------- screen_with_semaphore ------------------------ *)
\* Task i leaves screen_address with its _make_request call in state c: the
\* record goes to gather and the concurrency slot is released.
TaskFinishKeepsSlot(i, c, sv) ==
  /\ task' = [task EXCEPT ![i] = c]
  /\ results' = GatherStore(results, i,
                            screen_address(batch.addresses[i], c))
  /\ sem_value' = IF c.pc = "raised" THEN sv ELSE sv + 1
TaskFinish(i, c, sv) ==
  /\ task' = [task EXCEPT ![i] = c]
  /\ results' = GatherStore(results, i,
                            screen_address(batch.addresses[i], c))
  /\ sem_value' = sv + 1

TaskStart(i) ==
  /\ batch.pc = "gather"
  /\ task[i].pc = "new"
  /\ sem_value > 0
  /\ LET r == BeginAttempt(task[i], rate_value) IN
     /\ rate_value' = r.rate
     /\ IF Finished(r.call)
          THEN TaskFinish(i, r.call, sem_value - 1)
          ELSE /\ task' = [task EXCEPT ![i] = r.call]
               /\ sem_value' = sem_value - 1
               /\ UNCHANGED results
  /\ UNCHANGED <<run, fmt, config, session, categories, batch, drv, nCalls, direct,
                 fetcher, firstCats>>

TaskAcquire(i) ==
  /\ batch.pc = "gather"
  /\ task[i].pc = "wait_rate"
  /\ rate_value > 0
  /\ LET r == AcquireRate(task[i], rate_value) IN
     /\ task' = [task EXCEPT ![i] = r.call]
     /\ rate_value' = r.rate
  /\ UNCHANGED <<run, fmt, config, session, categories, batch, drv, sem_value, results,
                 nCalls, direct, fetcher, firstCats>>

TaskRespond(i, o) ==
  /\ batch.pc = "gather"
  /\ task[i].pc = "inflight"
  /\ rate_value' = rate_value + 1
  /\ LET c == EndAttempt(task[i], o) IN
       IF Finished(c)
         THEN TaskFinish(i, c, sem_value)
         ELSE /\ task' = [task EXCEPT ![i] = c]
              /\ UNCHANGED <<sem_value, results>>
  /\ UNCHANGED <<run, fmt, config, session, categories, batch, drv, nCalls, direct,
                 fetcher, firstCats>>

TaskBackoffEnd(i) ==
  /\ batch.pc = "gather"
  /\ task[i].pc = "backoff"
  /\ LET r == BeginAttempt(task[i], rate_value) IN
     /\ rate_value' = r.rate
     /\ IF Finished(r.call)
          THEN TaskFinish(i, r.call, sem_value)
          ELSE /\ task' = [task EXCEPT ![i] = r.call]
               /\ UNCHANGED <<sem_value, results>>
  /\ UNCHANGED <<run, fmt, config, session, categories, batch, drv, nCalls, direct,
                 fetcher, firstCats>>

\* gather is done once every task is: the results are formatted and
\* returned.
BatchReturn ==
  /\ batch.pc = "gather"
  /\ \A i \in 1..Len(task) : Finished(task[i])
  /\ batch' = [batch EXCEPT !.pc = "returned",
                            !.returned = FormatResults(results,
                                                       batch.addresses)]
  /\ UNCHANGED <<run, fmt, config, session, rate_value, categories, drv, sem_value,
                 task, results, nCalls, direct, fetcher, firstCats>>

(* ---------------------- a direct screen_address ------------------------ *)
Busy(c) == c.pc \in {"wait_rate", "inflight", "backoff"}

\* The caller's _make_request call is now c; once it has finished,
\* screen_address returns its record.
DirectStep(a, c) ==
  direct' = [call |-> c, address |-> a,
             result |-> IF Finished(c) THEN screen_address(a, c)
                                       ELSE Pending]

DirectCall(a) ==
  /\ ~Busy(direct.call)
  /\ nCalls < MaxCalls
  /\ nCalls' = nCalls + 1
  /\ LET r == BeginAttempt(IdleCall, rate_value) IN
       DirectStep(a, r.call) /\ rate_value' = r.rate
  /\ ForgetBatch
  /\ fetcher' = FetchersKept
  /\ UNCHANGED <<run, fmt, config, session, categories, firstCats>>

DirectAcquire ==
  /\ direct.call.pc = "wait_rate"
  /\ rate_value > 0
  /\ LET r == AcquireRate(direct.call, rate_value) IN
       DirectStep(direct.address, r.call) /\ rate_value' = r.rate
  /\ UNCHANGED <<run, fmt, config, session, categories, batch, drv, sem_value, task,
                 results, nCalls, fetcher, firstCats>>

DirectRespond(o) ==
  /\ direct.call.pc = "inflight"
  /\ rate_value' = rate_value + 1
  /\ DirectStep(direct.address, EndAttempt(direct.call, o))
  /\ UNCHANGED <<run, fmt, config, session, categories, batch, drv, sem_value, task,
                 results, nCalls, fetcher, firstCats>>

DirectBackoffEnd ==
  /\ direct.call.pc = "backoff"
  /\ LET r == BeginAttempt(direct.call, rate_value) IN
       DirectStep(direct.address, r.call) /\ rate_value' = r.rate
  /\ UNCHANGED <<run, fmt, config, session, categories, batch, drv, sem_value, task,
                 results, nCalls, fetcher, firstCats>>

(* ---------------------- direct fetch_categories ----------------------- *)
\* Caller f leaves fetch_categories: with the list <<cats>>, or with
\* ValueError (ret is None).
FetchReturn(f, c, ret) ==
  fetcher' = [fetcher EXCEPT ![f].call = c,
                             ![f].out = IF ret = None THEN "raised"
                                                      ELSE "returned",
                             ![f].ret = ret]

FetchProgress(f, c) == fetcher' = [fetcher EXCEPT ![f].call = c]

FetchCall(f) ==
  /\ ~Busy(fetcher[f].call)
  /\ nCalls < MaxCalls
  /\ nCalls' = nCalls + 1
  /\ LET kept == FetchersKept
         g == [IdleFetcher EXCEPT !.hit = CacheHit,
                                  !.after = firstCats # None,
                                  !.afterFail = FetchHadFailed]
     IN IF CacheHit
          THEN /\ fetcher' = [kept EXCEPT
                                ![f] = [g EXCEPT !.out = "returned",
                                                 !.ret = categories]]
               /\ UNCHANGED rate_value
          ELSE LET r == BeginAttempt(IdleCall, rate_value) IN
               /\ rate_value' = r.rate
               /\ fetcher' = [kept EXCEPT
                                ![f] = [g EXCEPT
                                          !.call = r.call,
                                          !.out = IF Finished(r.call)
                                                    THEN "raised"
                                                    ELSE "none"]]
  /\ ForgetBatch
  /\ direct' = DirectKept
  /\ UNCHANGED <<run, fmt, config, session, categories, firstCats>>

FetchAcquire(f) ==
  /\ fetcher[f].call.pc = "wait_rate"
  /\ rate_value > 0
  /\ LET r == AcquireRate(fetcher[f].call, rate_value) IN
       FetchProgress(f, r.call) /\ rate_value' = r.rate
  /\ UNCHANGED <<run, fmt, config, session, categories, batch, drv, sem_value, task,
                 results, nCalls, direct, firstCats>>

FetchRespond(f, o, resp) ==
  /\ fetcher[f].call.pc = "inflight"
  /\ rate_value' = rate_value + 1
  /\ LET c == EndAttempt(fetcher[f].call, o) IN
       IF ~Finished(c)
         THEN FetchProgress(f, c) /\ UNCHANGED <<categories, firstCats>>
         ELSE IF FetchOK(c, resp)
           THEN /\ categories' = Some(FetchedCategories(resp))
                /\ firstCats' = IF firstCats = None
                                  THEN Some(FetchedCategories(resp))
                                  ELSE firstCats
                /\ FetchReturn(f, c, Some(FetchedCategories(resp)))
           ELSE /\ FetchReturn(f, c, None)
                /\ categories' = CacheAfterFailure
                /\ UNCHANGED firstCats
  /\ UNCHANGED <<run, fmt, config, session, batch, drv, sem_value, task, results,
                 nCalls, direct>>

FetchBackoffEnd(f) ==
  /\ fetcher[f].call.pc = "backoff"
  /\ LET r == BeginAttempt(fetcher[f].call, rate_value) IN
     /\ rate_value' = r.rate
     /\ IF Finished(r.call) THEN FetchReturn(f, r.call, None)
                            ELSE FetchProgress(f, r.call)
  /\ UNCHANGED <<run, fmt, config, session, categories, batch, drv, sem_value, task,
                 results, nCalls, direct, firstCats>>

(* ------------------------------ async_main ---------------------------- *)
\* Config.from_env: the credential is required.
KeyNotChecked(key) == FALSE
from_env_fails(key) == ~key

\* A missing cell of the address column.
NaN == "NaN"
dropna(s) == SelectSeq(s, LAMBDA x : x # NaN)

\* list(dict.fromkeys(xs)): the keys in the order of their first insertion.
KeepDuplicates(xs) == xs
RECURSIVE Unique(_, _)
Unique(xs, acc) ==
  IF xs = <<>> THEN acc
  ELSE IF \E k \in 1..Len(acc) : acc[k] = Head(xs)
         THEN Unique(Tail(xs), acc)
         ELSE Unique(Tail(xs), Append(acc, Head(xs)))
fromkeys(xs) == Unique(xs, <<>>)

read_addresses_from_csv(raw) == fromkeys(dropna(raw))

\* async_main up to the client: configuration, then the addresses of the
\* input file; sys.exit(1) without the credential or without an address.
Startup ==
  /\ run.pc = "start"
  /\ IF from_env_fails(run.key)
       THEN run' = [run EXCEPT !.pc = "config_error"]
       ELSE LET addresses == read_addresses_from_csv(run.raw) IN
            run' = [run EXCEPT !.pc = IF addresses = <<>>
                                        THEN "no_addresses"
                                        ELSE "screening",
                               !.addresses = addresses]
  /\ UNCHANGED <<fmt, config, session, rate_value, categories, batch, drv,
                 sem_value, task, results, nCalls, direct, fetcher,
                 firstCats>>

\* What the API answers for an address that screens.
ApiResult(address) ==
  [risk |-> "Low",
   exposures |-> <<[category |-> "sanctions", exposureType |-> "direct",
                    value |-> "5"],
                   [category |-> "mixing", exposureType |-> "indirect",
                    value |-> "0"]>>]

\* result["row_data"] of a record of the batch.
RowData(r) ==
  IF r.status = "success"
    THEN screening_row_data(r.address, ApiResult(r.address), categories[1],
                            config.include_indirect_exposure)
    ELSE error_row_data(r.address, r.error)

endswith(s, suffix) ==
  /\ Len(s) >= Len(suffix)
  /\ SubSeq(s, Len(s) - Len(suffix) + 1, Len(s)) = suffix

\* The categories a row_data key of a success record contributes.
KeyCategories(key, include_indirect) ==
  IF include_indirect
    THEN IF endswith(key, "_direct")
           THEN {SubSeq(key, 1, Len(key) - 7)}
           ELSE IF endswith(key, "_indirect")
                  THEN {SubSeq(key, 1, Len(key) - 9)}
                  ELSE {}
    ELSE IF key \in {"address", "screenStatus", "risk", "riskReason",
                     "category", "name"}
           THEN {}
           ELSE {key}

categories_set(rs, include_indirect) ==
  UNION {KeyCategories(key, include_indirect) :
           key \in UNION {DOMAIN RowData(rs[i]) :
                            i \in {j \in 1..Len(rs) :
                                     rs[j].status = "success"}}}

\* sorted(list(categories_set))
SortedList(S) ==
  sorted(CHOOSE q \in [1..Cardinality(S) -> S] :
           \A x \in S : \E k \in 1..Cardinality(S) : q[k] = x)

Get(d, k, default) == IF k \in DOMAIN d THEN d[k] ELSE default
\* val or ""
OrEmpty(v) == IF v \in {PyNone, "", "0"} THEN "" ELSE v

RECURSIVE Columns(_, _)
Columns(cats, include_indirect) ==
  IF cats = <<>> THEN <<>>
  ELSE (IF include_indirect
          THEN <<Head(cats) \o "_direct", Head(cats) \o "_indirect">>
          ELSE <<Head(cats)>>)
       \o Columns(Tail(cats), include_indirect)

BaseHeader ==
  <<"address", "screenStatus", "risk", "riskReason", "category", "name">>

\* write_results_to_csv: None when it raises, else the header and the rows.
write_results_to_csv(rs, include_indirect) ==
  LET cset == categories_set(rs, include_indirect) IN
  IF cset = {} THEN None
  ELSE LET cols == Columns(SortedList(cset), include_indirect)
           Row(d) == [k \in 1..Len(BaseHeader) |->
                        Get(d, BaseHeader[k], "")]
                     \o [k \in 1..Len(cols) |->
                           OrEmpty(Get(d, cols[k], ""))]
       IN Some([header |-> BaseHeader \o cols,
                rows |-> [i \in 1..Len(rs) |-> Row(RowData(rs[i]))]])

success_count(rs) ==
  Cardinality({i \in 1..Len(rs) : rs[i].status = "success"})

\* async_main once screen_addresses has returned: the session is closed, the
\* results are written and the summary logged; an exception of the writer
\* ends the run with sys.exit(1).
Finish ==
  /\ run.pc = "screening"
  /\ batch.pc = "returned"
  /\ session' = FALSE
  /\ LET written == write_results_to_csv(batch.returned,
                                         config.include_indirect_exposure)
     IN IF written = None
          THEN run' = [run EXCEPT !.pc = "failed"]
          ELSE run' = [run EXCEPT
                         !.pc = "done",
                         !.file = written,
                         !.summary =
                           Some([success |-> success_count(batch.returned),
                                 errors |-> Len(batch.returned)
                                            - success_count(batch.returned)])]
  /\ UNCHANGED <<fmt, config, rate_value, categories, batch, drv, sem_value,
                 task, results, nCalls, direct, fetcher, firstCats>>

\* screen_addresses raised (the taxonomy could not be resolved): the session
\* is closed, except Exception logs and calls sys.exit(1).
Fail ==
  /\ run.pc = "screening"
  /\ batch.pc = "raised"
  /\ session' = FALSE
  /\ run' = [run EXCEPT !.pc = "failed"]
  /\ UNCHANGED <<fmt, config, rate_value, categories, batch, drv, sem_value,
                 task, results, nCalls, direct, fetcher, firstCats>>

\* Cancellation of a coroutine that has not finished: CancelledError is
\* raised at its await and no except Exception catches it.
CancelNotPropagated(c) == c
Cancel(c) == IF Finished(c) \/ c.pc = "idle" THEN c
             ELSE [c EXCEPT !.pc = "cancelled"]

\* The user interrupts the run while screen_addresses is awaited: the main
\* task is cancelled, gather cancels every task, the async-with blocks
\* release their slots and close the session, and the run ends without
\* reaching the writer.
Interrupt ==
  /\ run.pc = "screening"
  /\ batch.pc \in {"fetching", "gather"}
  /\ run' = [run EXCEPT !.pc = "interrupted"]
  /\ batch' = [batch EXCEPT !.pc = "cancelled"]
  /\ drv' = Cancel(drv)
  /\ task' = [i \in 1..Len(task) |-> Cancel(task[i])]
  /\ rate_value' =
       rate_value
       + Cardinality({i \in 1..Len(task) :
                        task[i].pc = "inflight"
                        /\ Cancel(task[i]).pc # "inflight"})
       + (IF drv.pc = "inflight" /\ Cancel(drv).pc # "inflight"
            THEN 1 ELSE 0)
  /\ sem_value' =
       sem_value
       + Cardinality({i \in 1..Len(task) :
                        task[i].pc \in {"wait_rate", "inflight", "backoff"}
                        /\ Cancel(task[i]).pc = "cancelled"})
  /\ session' = FALSE
  /\ UNCHANGED <<fmt, config, categories, results, nCalls, direct, fetcher,
                 firstCats>>

(* --------------------------- specifications --------------------------- *)
AddrLists == {SubSeq(AddressPool, 1, n) : n \in 0..MaxAddrs}
\* How an HTTP exchange may end.  The address tasks of a batch meet one error
\* of each kind the retry policy and screen_address tell apart (retried and
\* transient, retried and not transient, not retried); the single callers
\* meet every error.
Outcomes == {"ok"} \cup HttpErrors
TaskOutcomes == {"ok", "Http429", "Http404", "JSONDecodeError"}

\* No call on the client is in progress.
BatchBusy == batch.pc \in {"fetching", "gather"}
CallerIdle ==
  /\ ~BatchBusy
  /\ ~Busy(direct.call)
  /\ \A f \in 1..NumFetchers : ~Busy(fetcher[f].call)

\* One caller awaiting one call after the other on one client:
\* screen_addresses, screen_address or fetch_categories.
Next ==
  \/ aenter
  \/ CallerIdle /\ \E addrs \in AddrLists : ScreenAddresses(addrs)
  \/ \E o \in Outcomes, resp \in CatResponses : DriverRespond(o, resp)
  \/ DriverBackoffEnd
  \/ \E i \in 1..Len(task) : TaskStart(i)
  \/ \E i \in 1..Len(task) : TaskAcquire(i)
  \/ \E i \in 1..Len(task), o \in TaskOutcomes : TaskRespond(i, o)
  \/ \E i \in 1..Len(task) : TaskBackoffEnd(i)
  \/ BatchReturn
  \/ CallerIdle /\ \E a \in {AddressPool[1]} : DirectCall(a)
  \/ \E o \in Outcomes : DirectRespond(o)
  \/ DirectBackoffEnd
  \/ CallerIdle /\ FetchCall(1)
  \/ \E o \in Outcomes, resp \in CatResponses : FetchRespond(1, o, resp)
  \/ FetchBackoffEnd(1)

Spec == Init /\ [][Next]_vars

\* One caller of screen_address on clients configured with any MAX_RETRIES.
InitRetries ==
  /\ config \in [rate_limit : 1..MaxRate,
                 max_concurrent_requests : 1..MaxConc,
                 max_retries : 1..MaxRetriesCfg,
                 include_indirect_exposure : {TRUE}]
  /\ InitCommon

NextRetries ==
  \/ aenter
  \/ \E a \in Addresses : DirectCall(a)
  \/ \E o \in Outcomes : DirectRespond(o)
  \/ DirectBackoffEnd

SpecRetries == InitRetries /\ [][NextRetries]_vars

\* Several coroutines sharing one client: callers of fetch_categories and a
\* caller of screen_addresses with no address, none waiting for another.
ConcOutcomes == {"ok", "Http429", "JSONDecodeError"}

NextConc ==
  \/ aenter
  \/ \E f \in 1..NumFetchers : FetchCall(f)
  \/ \E f \in 1..NumFetchers : FetchAcquire(f)
  \/ \E f \in 1..NumFetchers, o \in ConcOutcomes, resp \in CatResponses :
       FetchRespond(f, o, resp)
  \/ \E f \in 1..NumFetchers : FetchBackoffEnd(f)
  \/ ScreenAddresses(<<>>)
  \/ DriverAcquire
  \/ \E o \in ConcOutcomes, resp \in CatResponses : DriverRespond(o, resp)
  \/ DriverBackoffEnd

SpecConc == Init /\ [][NextConc]_vars

\* One caller of fetch_categories, the endpoint answering with any body:
\* also one that lists a categoryName more than once.
TaxonomyResponses ==
  CatResponses \cup
    { [dict |-> TRUE, names |-> <<"mixing", "sanctions", "mixing">>],
      [dict |-> TRUE, names |-> <<"sanctions", "", "sanctions">>] }

NextTaxonomy ==
  \/ aenter
  \/ FetchCall(1)
  \/ \E o \in ConcOutcomes, resp \in TaxonomyResponses :
       FetchRespond(1, o, resp)
  \/ FetchBackoffEnd(1)

SpecTaxonomy == Init /\ [][NextTaxonomy]_vars

\* The formatting of one API payload, or of one failure, on a client whose
\* taxonomy is resolved: any list fetch_categories can cache, any short
\* exposure list.
ExposureEntries ==
  [category : {"sanctions", "mixing"},
   exposureType : {"direct", "indirect", ""},
   value : {"5", "0"}]
ExposureLists ==
  UNION {[1..n -> ExposureEntries] : n \in 0..MaxExposures}
ApiResults == [risk : {"Low"}, exposures : ExposureLists]
Taxonomies ==
  {FetchedCategories(resp) :
     resp \in {r \in TaxonomyResponses :
                 r.dict /\ NonEmptyNames(r.names) # <<>>}}

InitFormat ==
  /\ config \in [rate_limit : {MaxRate},
                 max_concurrent_requests : {MaxConc},
                 max_retries : {DefaultMaxRetries},
                 include_indirect_exposure : BOOLEAN]
  /\ session = TRUE
  /\ rate_value = config.rate_limit
  /\ categories \in {Some(t) : t \in Taxonomies}
  /\ firstCats = categories
  /\ batch = IdleBatch
  /\ drv = IdleCall
  /\ sem_value = 0
  /\ task = <<>>
  /\ results = <<>>
  /\ nCalls = 0
  /\ direct = IdleDirect
  /\ fetcher = [f \in 1..NumFetchers |-> IdleFetcher]
  /\ run = IdleRun
  /\ fmt \in [pc : {"input"}, address : {AddressPool[1]},
              api_result : ApiResults, result : {None}]

NextFormat ==
  \/ FormatScreeningResult
  \/ \E e \in {"Http404", "TimeoutError"} :
       FormatErrorResult(ErrorMessage(e))

SpecFormat == InitFormat /\ [][NextFormat]_vars

\* One run of the command line on an input file whose address column is a
\* prefix of RawPool, with or without the credential.
RawPool == <<"b", NaN, "a", "b", "a", "b">>
RawColumns == {SubSeq(RawPool, 1, n) : n \in 0..MaxRaw}
RunOutcomes == {"ok", "Http429", "JSONDecodeError"}

InitRun ==
  /\ config \in [rate_limit : 1..MaxRate,
                 max_concurrent_requests : 1..MaxConc,
                 max_retries : {DefaultMaxRetries},
                 include_indirect_exposure : BOOLEAN]
  /\ InitClient
  /\ run \in [pc : {"start"}, key : BOOLEAN, raw : RawColumns,
              addresses : {<<>>}, file : {None}, summary : {None}]
  /\ fmt = IdleFmt

NextRun ==
  \/ Startup
  \/ run.pc = "screening" /\ aenter
  \/ /\ run.pc = "screening"
     /\ session
     /\ batch.pc = "idle"
     /\ ScreenAddresses(run.addresses)
  \/ \E o \in RunOutcomes, resp \in CatResponses : DriverRespond(o, resp)
  \/ DriverBackoffEnd
  \/ \E i \in 1..Len(task) : TaskStart(i)
  \/ \E i \in 1..Len(task) : TaskAcquire(i)
  \/ \E i \in 1..Len(task), o \in RunOutcomes : TaskRespond(i, o)
  \/ \E i \in 1..Len(task) : TaskBackoffEnd(i)
  \/ BatchReturn
  \/ Finish
  \/ Fail
  \/ Interrupt

SpecRun == InitRun /\ [][NextRun]_vars

\* One batch on a client, where the event loop runs every coroutine that is
\* ready and every HTTP exchange and every backoff sleep comes to an end.
BatchStep ==
  \/ \E o \in RunOutcomes, resp \in CatResponses : DriverRespond(o, resp)
  \/ DriverBackoffEnd
  \/ \E i \in 1..Len(task) : TaskStart(i)
  \/ \E i \in 1..Len(task) : TaskAcquire(i)
  \/ \E i \in 1..Len(task), o \in RunOutcomes : TaskRespond(i, o)
  \/ \E i \in 1..Len(task) : TaskBackoffEnd(i)
  \/ BatchReturn

NextLive ==
  \/ aenter
  \/ batch.pc = "idle" /\ \E addrs \in AddrLists : ScreenAddresses(addrs)
  \/ BatchStep

SpecLive == Init /\ [][NextLive]_vars /\ WF_vars(BatchStep)

\* Coroutines sharing one client, none waiting for another: a batch, a
\* caller of screen_address and a caller of fetch_categories.
SharedOutcomes == {"ok", "JSONDecodeError"}

NextShared ==
  \/ aenter
  \/ \E addrs \in AddrLists : ScreenAddresses(addrs)
  \/ DriverAcquire
  \/ \E o \in SharedOutcomes, resp \in CatResponses : DriverRespond(o, resp)
  \/ \E i \in 1..Len(task) : TaskStart(i)
  \/ \E i \in 1..Len(task) : TaskAcquire(i)
  \/ \E i \in 1..Len(task), o \in SharedOutcomes : TaskRespond(i, o)
  \/ BatchReturn
  \/ \E a \in {AddressPool[1]} : DirectCall(a)
  \/ DirectAcquire
  \/ \E o \in SharedOutcomes : DirectRespond(o)
  \/ FetchCall(1)
  \/ FetchAcquire(1)
  \/ \E o \in SharedOutcomes, resp \in CatResponses :
       FetchRespond(1, o, resp)

SpecShared == Init /\ [][NextShared]_vars

(* ------------------------------- claims ------------------------------- *)
\* What the specification calls transient: connection failure, 5xx, 429.
TransientErrors == {"ClientConnectionError", "Http500", "Http429"}

TaskIds == 1..Len(task)
InFlightTasks == {i \in TaskIds : task[i].pc = "inflight"}
\* The _make_request calls of the callers of screen_address, each with the
\* record screen_address returned for it.
AddressCalls ==
  {[call |-> task[i], result |-> results[i]] : i \in TaskIds}
    \cup {direct}

\* C1: during a batch the number of per-address HTTP requests in flight
\* never exceeds max_concurrent_requests.
C1_InFlightBound ==
  Cardinality(InFlightTasks) <= config.max_concurrent_requests

\* A batch of more addresses than slots, with every slot's request in flight
\* and a task left waiting for a slot.
C1_Witness ==
  /\ batch.pc = "gather"
  /\ Len(task) > config.max_concurrent_requests
  /\ Cardinality(InFlightTasks) = config.max_concurrent_requests
  /\ \E i \in TaskIds : task[i].pc = "new"

\* C2: a returned batch has one record per address, the i-th record being
\* that of the i-th address, successes and failures alike.
C2_ResultsInInputOrder ==
  batch.pc = "returned" =>
    /\ Len(batch.returned) = Len(batch.addresses)
    /\ \A i \in 1..Len(batch.addresses) :
         /\ batch.returned[i].address = batch.addresses[i]
         /\ batch.returned[i].status \in {"success", "error"}
         /\ batch.returned[i] = screen_address(batch.addresses[i], task[i])

C2_Witness ==
  /\ batch.pc = "returned"
  /\ Len(batch.addresses) = MaxAddrs
  /\ batch.returned[1].status = "error"
  /\ batch.returned[MaxAddrs].status = "success"
  /\ task[1].attempt > task[MaxAddrs].attempt

\* C3 as claimed: a call with no address (on a client whose session is open)
\* returns [] and issues no request at all, whether or not the taxonomy was
\* fetched before.
C3_EmptyBatchNoRequest ==
  (batch.pc # "idle" /\ batch.addresses = <<>> /\ drv.err # "RuntimeError") =>
    /\ batch.pc = "returned"
    /\ batch.returned = <<>>
    /\ drv.sent = 0

\* C3 amended: a call with no address issues no per-address request and
\* returns [] when it returns; it issues no request at all when a fetch had
\* succeeded before the call, and otherwise issues the categories request
\* first and returns only once the taxonomy is resolved.
C3_EmptyBatch ==
  (batch.pc # "idle" /\ batch.addresses = <<>>) =>
    /\ task = <<>>
    /\ batch.pc = "returned" => batch.returned = <<>> /\ categories # None
    /\ batch.after => batch.pc = "returned" /\ drv.sent = 0
    /\ (~batch.after /\ batch.pc = "returned") => drv.sent >= 1

C3_Witness ==
  /\ batch.pc = "returned"
  /\ batch.addresses = <<>>
  /\ batch.after
  /\ drv.sent = 0

\* C4: a batch whose taxonomy resolution fails raises, returns nothing and
\* issues no per-address request; a per-address request is only ever issued
\* with the taxonomy resolved.
C4_TaxonomyFirst ==
  /\ batch.pc \in {"fetching", "raised"} =>
       task = <<>> /\ results = <<>> /\ batch.returned = <<>>
  /\ (batch.pc \in {"fetching", "raised"} /\ Finished(drv)) =>
       batch.pc = "raised"
  /\ \A i \in TaskIds : task[i].attempt > 0 => categories # None

C4_Witness ==
  /\ batch.pc = "raised"
  /\ batch.addresses # <<>>
  /\ drv.sent = StopAfterAttempt

\* C5: screen_address returns an error record for every failure and never
\* raises, so no gather slot holds an exception and a returned batch has for
\* every address its own record, next to the failed ones.
C5_FailuresAreRecords ==
  /\ \A x \in AddressCalls :
       Finished(x.call) =>
         /\ x.result.status \in {"success", "error"}
         /\ (x.call.pc = "raised" \/ categories = None) =>
              x.result.status = "error"
  /\ \A i \in TaskIds :
       results[i].status \in {"pending", "success", "error"}
  /\ batch.pc = "returned" =>
       \A i \in TaskIds : batch.returned[i] = results[i]

C5_Witness ==
  /\ batch.pc = "returned"
  /\ \E i, j \in TaskIds :
       /\ results[i].status = "error"
       /\ task[i].exc = "JSONDecodeError"
       /\ results[j].status = "success"

\* C6: a request whose attempt failed with a transient error before the
\* third goes on to another attempt, and one that succeeds on the third
\* attempt yields a success record (the taxonomy being resolved).
C6_ThirdAttemptSucceeds ==
  \A x \in AddressCalls :
    /\ (x.call.err \in TransientErrors /\ x.call.attempt < 3) =>
         x.call.pc = "backoff"
    /\ (x.call.pc = "returned" /\ x.call.attempt = 3 /\ categories # None) =>
         x.result.status = "success"

C6_Witness ==
  \E i \in TaskIds :
    /\ task[i].pc = "returned"
    /\ task[i].attempt = 3
    /\ task[i].sent = 3
    /\ results[i].status = "success"

\* C7: a request that ends with a transient error has been attempted up to
\* the limit, its record is an error record with the message of that last
\* failure, and the batch still returns a record for every address.
C7_TransientExhausted ==
  /\ \A x \in AddressCalls :
       (x.call.pc = "raised" /\ x.call.err \in TransientErrors) =>
         /\ x.call.attempt = StopAfterAttempt
         /\ x.call.sent = StopAfterAttempt
         /\ x.result = format_error_result(x.result.address,
                                           ErrorMessage(x.call.err))
  /\ batch.pc = "returned" =>
       \A i \in TaskIds :
         batch.returned[i].address = batch.addresses[i]

C7_Witness ==
  /\ batch.pc = "returned"
  /\ \E i, j \in TaskIds :
       /\ task[i].pc = "raised"
       /\ task[i].err = "Http429"
       /\ batch.returned[i].error = "429 Too Many Requests"
       /\ batch.returned[j].status = "success"

\* C8 as claimed: a request that fails with a non-transient error (a 4xx
\* other than 429, a malformed payload) is attempted once and the failure
\* surfaces at once.
NonTransientErrors == {"Http404", "ContentTypeError", "JSONDecodeError"}
C8_NonTransientNotRetried ==
  \A x \in AddressCalls :
    x.call.err \in NonTransientErrors =>
      x.call.attempt = 1 /\ x.call.pc = "raised"


\* C9 as claimed: the number of HTTP attempts of a request never exceeds the
\* configured max_retries, and a request that keeps failing with a transient
\* error is attempted exactly max_retries times.
C9_AttemptsFollowMaxRetries ==
  \A x \in AddressCalls :
    /\ x.call.sent <= config.max_retries
    /\ (x.call.pc = "raised" /\ x.call.err \in TransientErrors) =>
         x.call.sent = config.max_retries

\* C10 as claimed: once a fetch_categories call has succeeded, every call
\* begun later (that of a later batch too) returns that same list and issues
\* no request.
C10_Memoized ==
  /\ \A f \in 1..NumFetchers :
       fetcher[f].after =>
         /\ fetcher[f].out = "returned"
         /\ fetcher[f].ret = firstCats
         /\ fetcher[f].call.sent = 0
  /\ (batch.pc # "idle" /\ batch.after) =>
       /\ batch.pc \in {"gather", "returned"}
       /\ batch.cats = firstCats
       /\ drv.sent = 0

\* C11: fetch_categories raises and caches nothing when the body is
\* malformed or holds no non-empty category name; the cached taxonomy is
\* unset or a non-empty list of non-empty names, and so is every list a
\* call returned.
C11_TaxonomyNonEmpty ==
  /\ categories # None =>
       /\ categories[1] # <<>>
       /\ \A k \in 1..Len(categories[1]) : categories[1][k] # ""
  /\ \A f \in 1..NumFetchers :
       /\ fetcher[f].out = "returned" =>
            fetcher[f].ret # None /\ fetcher[f].ret[1] # <<>>
       /\ fetcher[f].out = "raised" =>
            fetcher[f].ret = None /\ categories = None
  /\ batch.pc = "raised" => categories = None /\ batch.cats = None
  /\ batch.cats # None => batch.cats[1] # <<>>

\* The categories request was answered, the body was refused.
C11_Witness ==
  /\ fetcher[1].out = "raised"
  /\ fetcher[1].call.pc = "returned"
  /\ fetcher[1].call.sent = 1
  /\ categories = None

\* C19 as claimed: an attempt that ends with the per-call timeout is retried
\* like a transient error, up to the attempt limit.
C19_TimeoutRetried ==
  \A x \in AddressCalls :
    x.call.err = "TimeoutError" =>
      \/ x.call.pc = "backoff"
      \/ x.call.pc = "raised" /\ x.call.attempt = StopAfterAttempt

\* C12 as claimed: the cached taxonomy is sorted and holds each category
\* name once, whatever the categories response lists.
C12_OrderedSet ==
  categories # None =>
    LET cats == categories[1] IN
    /\ \A j, k \in 1..Len(cats) : j < k => Rank(cats[j]) <= Rank(cats[k])
    /\ \A j, k \in 1..Len(cats) : j # k => cats[j] # cats[k]

BaseFields ==
  {"address", "screenStatus", "risk", "riskReason", "category", "name"}
\* The entries of the payload being formatted that have category cat and
\* an exposureType among types.
Matching(cat, types) ==
  {k \in 1..Len(fmt.api_result.exposures) :
     /\ fmt.api_result.exposures[k].category = cat
     /\ fmt.api_result.exposures[k].exposureType \in types}

\* C13: with indirect exposure included a success record has, for every
\* category of the taxonomy, a <cat>_direct and a <cat>_indirect field: the
\* value of a payload entry of that category and type, and None (present)
\* when the payload has no such entry.
C13_DirectAndIndirect ==
  (fmt.pc = "success" /\ config.include_indirect_exposure) =>
    LET row == fmt.result.row_data
        ex == fmt.api_result.exposures
        cats == categories[1]
    IN \A k \in 1..Len(cats), type \in {"direct", "indirect"} :
         LET key == cats[k] \o "_" \o type
             m == Matching(cats[k], {type})
         IN /\ key \in DOMAIN row
            /\ m = {} => row[key] = PyNone
            /\ m # {} => \E j \in m : row[key] = ex[j].value

\* Taxonomy {sanctions, mixing}, the single exposure (sanctions, direct, 5).
C13_Witness ==
  /\ fmt.pc = "success"
  /\ config.include_indirect_exposure
  /\ categories = Some(<<"mixing", "sanctions">>)
  /\ fmt.api_result.exposures =
       <<[category |-> "sanctions", exposureType |-> "direct",
          value |-> "5"]>>
  /\ fmt.result.row_data["sanctions_direct"] = "5"
  /\ fmt.result.row_data["sanctions_indirect"] = PyNone
  /\ fmt.result.row_data["mixing_direct"] = PyNone
  /\ fmt.result.row_data["mixing_indirect"] = PyNone

\* C14: with indirect exposure excluded a success record has the base
\* fields and one field per category of the taxonomy: the value of the first
\* payload entry of that category whose exposureType is not "indirect", and
\* None when there is none.
C14_FirstNonIndirect ==
  (fmt.pc = "success" /\ ~config.include_indirect_exposure) =>
    LET row == fmt.result.row_data
        ex == fmt.api_result.exposures
        cats == categories[1]
    IN /\ DOMAIN row = BaseFields \cup {cats[k] : k \in 1..Len(cats)}
       /\ \A k \in 1..Len(cats) :
            LET m == Matching(cats[k], {"direct", ""}) IN
            row[cats[k]] =
              IF m = {} THEN PyNone
              ELSE ex[CHOOSE j \in m : \A i \in m : j <= i].value

\* An entry tagged indirect first, then two that are not, with different
\* values.
C14_Witness ==
  /\ fmt.pc = "success"
  /\ ~config.include_indirect_exposure
  /\ categories = Some(<<"mixing", "sanctions">>)
  /\ \E cat \in {"sanctions"} :
       /\ Matching(cat, {"indirect"}) = {}
       /\ Matching(cat, {"direct", ""}) = {1, 2}
       /\ fmt.api_result.exposures[1].value = "5"
       /\ fmt.api_result.exposures[2].value = "0"
       /\ fmt.result.row_data[cat] = "5"
  /\ fmt.result.row_data["mixing"] = PyNone

\* C15 as claimed: the row data of an error record has the fields of the row
\* data of a success record formatted under the same taxonomy.
C15_ErrorShape ==
  fmt.pc = "error" =>
    DOMAIN fmt.result.row_data =
      DOMAIN screening_row_data(fmt.address, fmt.api_result, categories[1],
                                config.include_indirect_exposure)

\* The run has read its addresses.
AddressesRead ==
  run.pc \in {"no_addresses", "screening", "done", "failed", "interrupted"}
FirstIndex(a) ==
  CHOOSE k \in 1..Len(run.raw) :
    run.raw[k] = a /\ \A m \in 1..(k - 1) : run.raw[m] # a

\* C16: the list handed to screening holds each distinct address of the raw
\* column exactly once, in the order of first occurrence, so a batch has one
\* task, hence one request sequence, per distinct address.
C16_Deduplicated ==
  AddressesRead =>
    LET distinct == {run.raw[k] : k \in 1..Len(run.raw)} \ {NaN}
        a == run.addresses
    IN /\ {a[i] : i \in 1..Len(a)} = distinct
       /\ Len(a) = Cardinality(distinct)
       /\ \A i, j \in 1..Len(a) :
            i < j => FirstIndex(a[i]) < FirstIndex(a[j])
       /\ batch.pc # "idle" =>
            /\ batch.addresses = a
            /\ Len(task) \in {0, Len(a)}
            /\ \A i, j \in 1..Len(task) :
                 i # j => batch.addresses[i] # batch.addresses[j]

\* A column with a repeated address, both of whose distinct addresses have
\* had their requests.
C16_Witness ==
  /\ run.pc = "screening"
  /\ Len(run.raw) > Cardinality({run.raw[k] : k \in 1..Len(run.raw)})
  /\ run.raw[1] = run.raw[4]
  /\ run.addresses = <<"b", "a">>
  /\ Len(task) = 2
  /\ \A i \in 1..Len(task) : task[i].sent >= 1

\* C17 as claimed: after every run whose screening returned results the
\* file is written with one row per address, the row of a failed address
\* showing its error, and the summary of the counts is reported.
C17_OutputAfterEveryRun ==
  (batch.pc = "returned" /\ run.pc \in {"done", "failed"}) =>
    /\ run.file # None
    /\ Len(run.file[1].rows) = Len(run.addresses)
    /\ \A i \in 1..Len(run.addresses) :
         /\ run.file[1].rows[i][1] = run.addresses[i]
         /\ batch.returned[i].status = "error" =>
              run.file[1].rows[i][2] = batch.returned[i].error
    /\ run.summary # None
    /\ run.summary[1].success + run.summary[1].errors = Len(run.addresses)

\* C18: when the run is interrupted during the batch no task is left in
\* flight, screen_addresses has returned no list, and no file is written.
C18_Cancelled ==
  run.pc = "interrupted" =>
    /\ \A i \in 1..Len(task) :
         task[i].pc \in {"returned", "raised", "cancelled"}
    /\ drv.pc \in {"idle", "returned", "raised", "cancelled"}
    /\ batch.pc = "cancelled"
    /\ batch.returned = <<>>
    /\ run.file = None
    /\ run.summary = None

\* Interrupted with one task done, one request in flight.
C18_Witness ==
  /\ run.pc = "interrupted"
  /\ \E i, j \in 1..Len(task) :
       /\ task[i].pc = "cancelled"
       /\ task[i].sent >= 1
       /\ task[j].pc = "returned"
       /\ results[j].status = "success"

\* C20: without the credential the run ends at configuration loading: no
\* session is opened, no request of either kind is issued, nothing is
\* written.
C20_MissingCredential ==
  ~run.key =>
    /\ run.pc \in {"start", "config_error"}
    /\ ~session
    /\ nCalls = 0
    /\ batch = IdleBatch
    /\ drv.sent = 0
    /\ task = <<>>
    /\ run.file = None
    /\ run.summary = None

C20_Witness ==
  /\ ~run.key
  /\ run.pc = "config_error"
  /\ run.raw # <<>>

\* The slots in use: acquired and not yet released.
HeldThroughput == config.rate_limit - rate_value
HeldConcurrency == BatchSemaphore - sem_value
\* The coroutines inside async with self._rate_limit_semaphore, and the
\* tasks inside async with semaphore.
InFlightAll ==
  Cardinality(InFlightTasks)
  + Cardinality({f \in 1..NumFetchers : fetcher[f].call.pc = "inflight"})
  + (IF drv.pc = "inflight" THEN 1 ELSE 0)
  + (IF direct.call.pc = "inflight" THEN 1 ELSE 0)
InsideConcurrency ==
  {i \in TaskIds : task[i].pc \in {"wait_rate", "inflight", "backoff"}}

\* C21 as claimed: the step that ends an HTTP attempt does not release the
\* attempt's throughput slot (the slot is kept for the pacing delay).
C21_SlotKeptForPacing ==
  [][InFlightAll' < InFlightAll => rate_value' <= rate_value]_vars

\* C22 as claimed: the slots are held per attempt, so a task in the backoff
\* delay holds neither: the concurrency slots in use are those of the tasks
\* at an attempt, the throughput slots in use those of the attempts in
\* flight.
C22_SlotsPerAttempt ==
  batch.pc = "gather" =>
    /\ HeldConcurrency =
         Cardinality({i \in TaskIds :
                        task[i].pc \in {"wait_rate", "inflight"}})
    /\ HeldThroughput = InFlightAll

\* The callers whose fetch_categories call has issued a request.
FetchRequesters ==
  {f \in 1..NumFetchers : fetcher[f].call.sent >= 1}
    \cup (IF drv.sent >= 1 THEN {0} ELSE {})

\* C23 as claimed: of the callers of fetch_categories whose calls overlap
\* while the taxonomy is not cached at most one issues a request, and all
\* obtain the same list.
C23_SingleFlight ==
  /\ Cardinality(FetchRequesters) <= 1
  /\ \A f, g \in 1..NumFetchers :
       (fetcher[f].out = "returned" /\ fetcher[g].out = "returned") =>
         fetcher[f].ret = fetcher[g].ret

\* C24: the throughput slots in use are between 0 and rate_limit and as
\* many as the attempts in flight; the concurrency slots in use are between
\* 0 and max_concurrent_requests and as many as the tasks inside the guarded
\* section; once the batch has returned none is in use.
C24_SlotsConserved ==
  /\ HeldThroughput \in 0..config.rate_limit
  /\ HeldThroughput = InFlightAll
  /\ batch.pc \in {"gather", "returned"} =>
       /\ HeldConcurrency \in 0..config.max_concurrent_requests
       /\ HeldConcurrency = Cardinality(InsideConcurrency)
  /\ batch.pc = "returned" =>
       /\ HeldConcurrency = 0
       /\ InFlightTasks = {}
       /\ drv.pc # "inflight"

\* A returned batch of more addresses than slots with a task that failed
\* after its retries and one that succeeded after a retry.
C24_Witness ==
  /\ batch.pc = "returned"
  /\ Len(task) > config.max_concurrent_requests
  /\ \E i, j \in TaskIds :
       /\ task[i].pc = "raised"
       /\ task[i].attempt = StopAfterAttempt
       /\ task[j].pc = "returned"
       /\ task[j].attempt > 1
  /\ sem_value = config.max_concurrent_requests
  /\ rate_value = config.rate_limit

\* C25: a batch whose tasks have been created eventually returns, and a
\* batch waiting for the taxonomy eventually gets past it, whatever the
\* capacities and the number of addresses.
C25_BatchReturns ==
  /\ (batch.pc = "gather") ~> (batch.pc = "returned")
  /\ (batch.pc = "fetching") ~> (batch.pc \in {"returned", "raised"})

\* A batch of more addresses than concurrency slots and than throughput
\* slots has returned, a task having used all its attempts.
C25_Witness ==
  /\ batch.pc = "returned"
  /\ Len(task) = MaxAddrs
  /\ Len(task) > config.max_concurrent_requests
  /\ Len(task) > config.rate_limit
  /\ \E i \in TaskIds : task[i].sent = StopAfterAttempt

Min(a, b) == IF a <= b THEN a ELSE b

\* C26: at most rate_limit HTTP attempts are in flight on a client, whoever
\* makes them (the categories call, direct callers, the tasks of a batch),
\* and the tasks of a batch have at most min(rate_limit,
\* max_concurrent_requests) in flight.
C26_SharedThroughput ==
  /\ InFlightAll <= config.rate_limit
  /\ Cardinality(InFlightTasks) <=
       Min(config.rate_limit, config.max_concurrent_requests)

\* Every throughput slot in use, by a task of the batch and by a direct
\* caller, while another task with a concurrency slot waits for one.
C26_Witness ==
  /\ InFlightAll = config.rate_limit
  /\ config.rate_limit > 1
  /\ InFlightTasks # {}
  /\ direct.call.pc = "inflight"
  /\ \E i \in TaskIds : task[i].pc = "wait_rate"

\* C27: a fetch_categories call that raised leaves the taxonomy unset, and
\* the fetch_categories or screen_addresses call made next finds it unset
\* and issues a categories request (on an open session), which can succeed.
C27_FailureNotMemoized ==
  /\ [](FetchHadFailed => categories = None)
  /\ [](\A f \in 1..NumFetchers :
          fetcher[f].afterFail =>
            /\ ~fetcher[f].hit
            /\ \/ fetcher[f].call.sent >= 1
               \/ fetcher[f].call.exc = "RuntimeError")
  /\ [][(FetchHadFailed /\ batch'.pc # "idle" /\ nCalls' = nCalls + 1) =>
          \/ drv'.pc = "inflight" /\ drv'.sent = 1
          \/ drv'.exc = "RuntimeError"]_vars

\* A fetch_categories call made right after a failed resolution has issued
\* its request and returned the taxonomy, which is now cached.
C27_Witness ==
  /\ fetcher[1].afterFail
  /\ fetcher[1].out = "returned"
  /\ fetcher[1].call.sent = 1
  /\ fetcher[1].ret # None
  /\ categories = fetcher[1].ret

\* C28 as claimed: in the written table the cell of a category column is
\* empty exactly when the record has no value for it (None, or no such
\* field), and every value, 0 too, is written as it is.
C28_CellsKeepValues ==
  run.pc = "done" =>
    LET header == run.file[1].header
        rows == run.file[1].rows
    IN \A i \in 1..Len(rows), k \in (Len(BaseHeader) + 1)..Len(header) :
         LET v == Get(RowData(batch.returned[i]), header[k], PyNone) IN
         rows[i][k] = IF v = PyNone THEN "" ELSE v

====
